---- MODULE Spec2Model ----
(***************************************************************************)
(* Model of coil_pack_app.py: CoilPackModel.compute (window sizing, strand *)
(* placement, fill factor) and the per-strand layer index that             *)
(* CoilApp._draw derives from the emitted centers.                         *)
(*                                                                         *)
(* Arithmetic.  The program computes in floating point; the model computes *)
(* the same expressions exactly, over rationals with a common denominator. *)
(* Input lengths are integers (ticks).  insulation_factor is the rational  *)
(* insulation_factor / InsDen and the two pack factors are rationals       *)
(* horiz_pack_factor / PackDen and vert_pack_factor / PackDen.  Every      *)
(* length that compute derives (window sizes, d_eff, radius, spacings,     *)
(* centre coordinates) is held multiplied by Scale = 2 * InsDen * PackDen, *)
(* which makes all of them integers.  Areas are held multiplied by         *)
(* Scale^2 and, for the copper area, divided by pi.                        *)
(***************************************************************************)
EXTENDS Integers, Sequences, FiniteSets

\* ---- bounds of the explored input space ----
\* Only outer_diameter - inner_diameter enters the computation (line 46), so
\* one inner diameter is explored and the outer one ranges on both sides of it.
InnerDiameter == 0
MaxOuter == 6
MaxBobbin == 3
MaxMargin == 1
MaxStrand == 2
\* insulation_factor = InsNum / InsDen, one value above 1 (the program only ever
\* uses the dataclass default, 1.08)
InsNum == 3
InsDen == 2
PackDen == 2
MaxStrands == 2
MaxTurnsPerLayer == 2
MaxTurns == 3
MaxFactor == 2

Scale == 2 * InsDen * PackDen

Max(a, b) == IF a >= b THEN a ELSE b
Min(a, b) == IF a <= b THEN a ELSE b

\* math.ceil of the true quotient a / b, for b > 0.
Ceil(a, b) == -((-a) \div b)

\* int(a / b): truncation toward zero, for b > 0.
Trunc(a, b) == IF a >= 0 THEN a \div b ELSE -((-a) \div b)

RECURSIVE GCD(_, _)
GCD(a, b) == IF b = 0 THEN a ELSE GCD(b, a % b)

\* A non-negative rational num / den (den > 0) in lowest terms.
Frac(num, den) == LET g == GCD(num, den) IN [num |-> num \div g, den |-> den \div g]

\* ---- CoilInputs ----
CoilInputs ==
    [ inner_diameter_mm : {InnerDiameter},
      outer_diameter_mm : 0..MaxOuter,
      bobbin_length_mm  : 0..MaxBobbin,
      strand_diameter_mm : 1..MaxStrand,
      strands_per_turn  : -1..MaxStrands,
      turns_per_layer   : -1..MaxTurnsPerLayer,
      total_turns       : -1..MaxTurns,
      insulation_factor : {InsNum},
      margin_mm         : 0..MaxMargin,
      horiz_pack_factor : (PackDen - 1)..PackDen,
      vert_pack_factor  : 1..PackDen ]

VARIABLES inp, pc, ly, remaining, centers_global, outs, emitted_ly, trace, layer_index

vars == <<inp, pc, ly, remaining, centers_global, outs, emitted_ly, trace, layer_index>>

\* ---- compute, lines 46-50 ----
\* mutant: the margin of the dataclass default instead of the input's
MarginDefault(p) == Scale

Margin(p) == p.margin_mm * Scale

RadialThickness(p) == (p.outer_diameter_mm - p.inner_diameter_mm) * InsDen * PackDen

WindowHeight(p) == Max(0, RadialThickness(p) - 2 * Margin(p))

WindowWidth(p) == Max(0, p.bobbin_length_mm * Scale - 2 * Margin(p))

DEff(p) == p.strand_diameter_mm * p.insulation_factor * 2 * PackDen

Radius(p) == DEff(p) \div 2

\* mutant: only the width is tested
DegenerateWidthOnly(p) == WindowWidth(p) <= 0

Degenerate(p) == WindowWidth(p) <= 0 \/ WindowHeight(p) <= 0

\* ---- compute, lines 57-63 ----
BundleW(p) == p.strands_per_turn * DEff(p)

SpacingX(p) == (BundleW(p) * p.horiz_pack_factor) \div PackDen

SpacingY(p) == (DEff(p) * p.vert_pack_factor) \div PackDen

\* mutant: a floor of 0 under the division
LayerDivisorUnguarded(p) == Max(0, p.turns_per_layer)

LayerDivisor(p) == Max(1, p.turns_per_layer)

\* mutant: floor instead of ceil
LayersFloor(p) == p.total_turns \div LayerDivisor(p)

Layers(p) == Ceil(p.total_turns, LayerDivisor(p))

\* ---- compute, lines 66-76 ----
\* mutant: a full layer every time
TurnsThisLayerFull(p, rem) == p.turns_per_layer

TurnsThisLayer(p, rem) == Min(p.turns_per_layer, rem)

BaseX(p, tx) == Margin(p) + tx * SpacingX(p)

\* mutant: layers pitched at d_eff, the vertical pack factor dropped
BaseYUnpacked(p, l) == Margin(p) + l * DEff(p)

\* mutant: layers stacked from the top layer down
BaseYTopDown(p, l) == Margin(p) + (Layers(p) - 1 - l) * SpacingY(p)

BaseY(p, l) == Margin(p) + l * SpacingY(p)

Center(p, l, tx, s) == <<BaseX(p, tx) + s * DEff(p) + Radius(p), BaseY(p, l) + Radius(p)>>

\* for s in range(strands_per_turn): append
RECURSIVE StrandLoop(_, _, _, _)
StrandLoop(p, l, tx, s) ==
    IF s >= p.strands_per_turn THEN <<>>
    ELSE <<Center(p, l, tx, s)>> \o StrandLoop(p, l, tx, s + 1)

\* for tx in range(turns_this_layer): ...
RECURSIVE TurnLoop(_, _, _, _)
TurnLoop(p, l, tx, n) ==
    IF tx >= n THEN <<>>
    ELSE StrandLoop(p, l, tx, 0) \o TurnLoop(p, l, tx + 1, n)

BreakNow(rem) == rem <= 0

\* ---- compute, lines 79-86 ----
\* mutant: the right and top bounds exclusive
InWindowHalfOpen(p, c) ==
    /\ Margin(p) <= c[1] /\ c[1] < Margin(p) + WindowWidth(p)
    /\ Margin(p) <= c[2] /\ c[2] < Margin(p) + WindowHeight(p)

InWindow(p, c) ==
    /\ Margin(p) <= c[1] /\ c[1] <= Margin(p) + WindowWidth(p)
    /\ Margin(p) <= c[2] /\ c[2] <= Margin(p) + WindowHeight(p)

InWindowCount(p, cs) == Cardinality({i \in 1..Len(cs) : InWindow(p, cs[i])})

\* copper_area / pi
CopperArea(p, cs) == InWindowCount(p, cs) * Radius(p) * Radius(p)

WindowArea(p) == WindowWidth(p) * WindowHeight(p)

\* fill_factor / pi, as a fraction in lowest terms
FillFactor(p, cs) ==
    IF WindowArea(p) > 0 THEN Frac(CopperArea(p, cs) * 100, WindowArea(p))
    ELSE Frac(0, 1)

EmptyResult(p) ==
    [ window_width_mm |-> WindowWidth(p), window_height_mm |-> WindowHeight(p),
      layers |-> 0, strand_centers |-> <<>>, strand_radius_mm |-> Radius(p),
      fill_factor |-> Frac(0, 1), adjusted_turns |-> 0 ]

Result(p, cs) ==
    [ window_width_mm |-> WindowWidth(p), window_height_mm |-> WindowHeight(p),
      layers |-> Layers(p), strand_centers |-> cs, strand_radius_mm |-> Radius(p),
      fill_factor |-> FillFactor(p, cs), adjusted_turns |-> p.total_turns ]

\* The layer loop as a function: the centers it has appended when it ends.
RECURSIVE LayerLoop(_, _, _, _)
LayerLoop(p, l, rem, cs) ==
    IF l >= Layers(p) THEN cs
    ELSE LET n == TurnsThisLayer(p, rem)
             new == cs \o TurnLoop(p, l, 0, n)
         IN  IF BreakNow(rem - n) THEN new ELSE LayerLoop(p, l + 1, rem - n, new)

\* compute as a function of its input.
Compute(p) ==
    IF Degenerate(p) THEN EmptyResult(p)
    ELSE Result(p, LayerLoop(p, 0, p.total_turns, <<>>))

\* ---- _draw, line 211 ----
LayerIndex(p, c) ==
    Trunc(c[2] - Margin(p),
          (p.strand_diameter_mm * p.insulation_factor * 2 * PackDen * p.vert_pack_factor) \div PackDen)

NoResult == [ window_width_mm |-> 0, window_height_mm |-> 0, layers |-> 0,
              strand_centers |-> <<>>, strand_radius_mm |-> 0,
              fill_factor |-> Frac(0, 1), adjusted_turns |-> 0 ]

Init ==
    /\ inp \in CoilInputs
    /\ pc = "start"
    /\ ly = 0
    /\ remaining = 0
    /\ centers_global = <<>>
    /\ outs = NoResult
    /\ emitted_ly = <<>>
    /\ trace = <<>>
    /\ layer_index = <<>>

\* lines 46-54: the window collapsed, return the empty result
ShortCircuit ==
    /\ pc = "start"
    /\ Degenerate(inp)
    /\ outs' = EmptyResult(inp)
    /\ pc' = "done"
    /\ UNCHANGED <<inp, ly, remaining, centers_global, emitted_ly, trace, layer_index>>

\* lines 46-63 and the entry of the for loop at line 66
BeginPlacement ==
    /\ pc = "start"
    /\ ~Degenerate(inp)
    /\ centers_global' = <<>>
    /\ remaining' = inp.total_turns
    /\ ly' = 0
    /\ pc' = IF LayerDivisor(inp) = 0 THEN "raised"
             ELSE IF 0 < Layers(inp) THEN "loop" ELSE "fill"
    /\ UNCHANGED <<inp, outs, emitted_ly, trace, layer_index>>

\* lines 66-76: one iteration of the layer loop
Layer ==
    /\ pc = "loop"
    /\ LET n == TurnsThisLayer(inp, remaining)
           new == TurnLoop(inp, ly, 0, n)
           rem == remaining - n
       IN  /\ centers_global' = centers_global \o new
           /\ emitted_ly' = emitted_ly \o [i \in 1..Len(new) |-> ly]
           /\ remaining' = rem
           /\ trace' = Append(trace, [ly |-> ly, turns |-> n, remaining |-> rem,
                                      broke |-> BreakNow(rem)])
           /\ IF BreakNow(rem) THEN pc' = "fill" /\ ly' = ly
              ELSE IF ly + 1 < Layers(inp) THEN pc' = "loop" /\ ly' = ly + 1
              ELSE pc' = "fill" /\ ly' = ly
    /\ UNCHANGED <<inp, outs, layer_index>>

\* lines 78-86
Return ==
    /\ pc = "fill"
    /\ outs' = Result(inp, centers_global)
    /\ pc' = "done"
    /\ UNCHANGED <<inp, ly, remaining, centers_global, emitted_ly, trace, layer_index>>

\* _draw, lines 210-212
Draw ==
    /\ pc = "done"
    /\ layer_index' = [i \in 1..Len(outs.strand_centers) |->
                          LayerIndex(inp, outs.strand_centers[i])]
    /\ pc' = "drawn"
    /\ UNCHANGED <<inp, ly, remaining, centers_global, outs, emitted_ly, trace>>

Next == ShortCircuit \/ BeginPlacement \/ Layer \/ Return \/ Draw

Spec == Init /\ [][Next]_vars

\* compute and _draw run to completion once called: no step waits on anything.
FairSpec == Spec /\ WF_vars(Next)

Terminates == <>(pc = "drawn")

\* The stepwise run and the function Compute agree on every input.
StepsAgree == pc \in {"done", "drawn"} => outs = Compute(inp)

Returned == pc = "done"

Valid == outs.window_width_mm > 0 /\ outs.window_height_mm > 0

Zero == Frac(0, 1)

\* a / b <= c / d for fractions with positive denominators
FracLeq(f, g) == f.num * g.den <= g.num * f.den

\* the turns the layer loop placed, summed over its iterations
RECURSIVE TurnsPlaced(_)
TurnsPlaced(t) == IF t = <<>> THEN 0 ELSE Max(0, t[1].turns) + TurnsPlaced(Tail(t))

----
\* C1: a window that collapses (outer_diameter <= inner_diameter + 2*margin, or
\* bobbin_length <= 2*margin, or either window dimension 0) gives layer_count 0,
\* no strand centers, fill factor 0 and adjusted_turns 0 whatever the counts
\* are; and both window dimensions are >= 0 for every input.
C1_DegenerateWindow ==
    Returned =>
        /\ outs.window_width_mm >= 0
        /\ outs.window_height_mm >= 0
        /\ ( \/ inp.outer_diameter_mm <= inp.inner_diameter_mm + 2 * inp.margin_mm
             \/ inp.bobbin_length_mm <= 2 * inp.margin_mm
             \/ outs.window_width_mm = 0
             \/ outs.window_height_mm = 0 )
           => /\ outs.layers = 0
              /\ outs.strand_centers = <<>>
              /\ outs.fill_factor = Zero
              /\ outs.adjusted_turns = 0

C1_Witness ==
    /\ pc = "done"
    /\ inp.outer_diameter_mm <= inp.inner_diameter_mm + 2 * inp.margin_mm
    /\ inp.bobbin_length_mm > 2 * inp.margin_mm
    /\ inp.margin_mm > 0
    /\ inp.total_turns = MaxTurns
    /\ inp.turns_per_layer = 1
    /\ inp.strands_per_turn = 1
    /\ outs.layers = 0
    /\ outs.window_height_mm = 0

\* C2: with a valid window and non-negative counts, the number of strand
\* centers is strands_per_turn * min(total_turns, layer_count * turns_per_layer),
\* layer_count is the least integer L with L * max(1, turns_per_layer) >=
\* total_turns, and with turns_per_layer >= 1 exactly total_turns *
\* strands_per_turn centers are placed.
C2_PlacementCount ==
    ( /\ Returned /\ Valid
      /\ inp.total_turns >= 0 /\ inp.turns_per_layer >= 0 /\ inp.strands_per_turn >= 0 )
    => LET d == IF inp.turns_per_layer >= 1 THEN inp.turns_per_layer ELSE 1
       IN  /\ outs.layers * d >= inp.total_turns
           /\ (outs.layers - 1) * d < inp.total_turns
           /\ TurnsPlaced(trace) = Min(inp.total_turns, outs.layers * inp.turns_per_layer)
           /\ Len(outs.strand_centers)
                = inp.strands_per_turn * Min(inp.total_turns, outs.layers * inp.turns_per_layer)
           /\ inp.turns_per_layer >= 1
                => Len(outs.strand_centers) = inp.total_turns * inp.strands_per_turn

C2_Witness ==
    /\ pc = "done" /\ Valid
    /\ inp.total_turns = 3 /\ inp.turns_per_layer = 2 /\ inp.strands_per_turn = 2
    /\ outs.layers = 2
    /\ Len(outs.strand_centers) = 6

\* C3: with a valid window, turns_per_layer >= 1 and strands_per_turn >= 1, the
\* i-th center (0-based) is that of strand i mod strands_per_turn of turn
\* (i div strands_per_turn) mod turns_per_layer of layer
\* i div (turns_per_layer * strands_per_turn); y never decreases along the
\* sequence, the first turns_per_layer * strands_per_turn entries share one y
\* and the entry after them has a strictly larger y.
C3_Center(i) ==
    LET s  == i % inp.strands_per_turn
        tx == (i \div inp.strands_per_turn) % inp.turns_per_layer
        l  == i \div (inp.turns_per_layer * inp.strands_per_turn)
        \* the quantities below are 2 * InsDen * PackDen times the real ones
        m  == inp.margin_mm * 2 * InsDen * PackDen
        de == inp.strand_diameter_mm * inp.insulation_factor * 2 * PackDen
        sx == inp.strands_per_turn * inp.strand_diameter_mm * inp.insulation_factor
                * 2 * inp.horiz_pack_factor
        sy == inp.strand_diameter_mm * inp.insulation_factor * 2 * inp.vert_pack_factor
        r  == inp.strand_diameter_mm * inp.insulation_factor * PackDen
    IN  <<m + tx * sx + s * de + r, m + l * sy + r>>

C3_LayerMajorOrdering ==
    ( /\ Returned /\ Valid
      /\ inp.turns_per_layer >= 1 /\ inp.strands_per_turn >= 1 )
    => LET cs == outs.strand_centers
           block == inp.turns_per_layer * inp.strands_per_turn
       IN  /\ \A i \in 0..(Len(cs) - 1) : cs[i + 1] = C3_Center(i)
           /\ \A i \in 1..(Len(cs) - 1) : cs[i][2] <= cs[i + 1][2]
           /\ \A i \in 1..Min(block, Len(cs)) : cs[i][2] = cs[1][2]
           /\ Len(cs) > block => cs[block + 1][2] > cs[block][2]

C3_Witness ==
    /\ pc = "done" /\ Valid
    /\ inp.turns_per_layer = 2 /\ inp.strands_per_turn = 2
    /\ inp.vert_pack_factor < PackDen
    /\ Len(outs.strand_centers) > 4
    /\ outs.strand_centers[5][2] > outs.strand_centers[4][2]

\* C4: the fill factor is computed from the number of emitted centers (x, y)
\* with margin <= x <= margin + window_width and margin <= y <= margin +
\* window_height, both bounds inclusive; centers outside are not counted but
\* stay in strand_centers.
C4_Inside(c) ==
    LET m == inp.margin_mm * 2 * InsDen * PackDen
    IN  /\ m <= c[1] /\ c[1] <= m + outs.window_width_mm
        /\ m <= c[2] /\ c[2] <= m + outs.window_height_mm

C4_Tally == Cardinality({i \in 1..Len(outs.strand_centers) : C4_Inside(outs.strand_centers[i])})

C4_FillFactorTally ==
    (Returned /\ Valid)
    => LET r == inp.strand_diameter_mm * inp.insulation_factor * PackDen
       IN  /\ outs.strand_centers = centers_global
           /\ outs.fill_factor.num * (outs.window_width_mm * outs.window_height_mm)
                = C4_Tally * r * r * 100 * outs.fill_factor.den

C4_Witness ==
    /\ pc = "done" /\ Valid
    /\ \E i \in 1..Len(outs.strand_centers) :
          /\ C4_Inside(outs.strand_centers[i])
          /\ outs.strand_centers[i][1]
               = inp.margin_mm * 2 * InsDen * PackDen + outs.window_width_mm
    /\ \E i \in 1..Len(outs.strand_centers) : ~C4_Inside(outs.strand_centers[i])
    /\ C4_Tally < Len(outs.strand_centers)
    /\ outs.fill_factor # Zero

\* C5: of two inputs that differ only in total_turns, the one with the larger
\* total_turns has at least as many strands inside the window and at least the
\* fill factor of the other, and the centers of the smaller are a prefix of
\* the centers of the larger.
C5_MonotonicArea ==
    Returned =>
        \A t \in inp.total_turns..MaxTurns :
            LET q == [inp EXCEPT !.total_turns = t]
                o == Compute(q)
            IN  /\ InWindowCount(q, o.strand_centers)
                     >= InWindowCount(inp, outs.strand_centers)
                /\ FracLeq(outs.fill_factor, o.fill_factor)
                /\ Len(o.strand_centers) >= Len(outs.strand_centers)
                /\ SubSeq(o.strand_centers, 1, Len(outs.strand_centers)) = outs.strand_centers

C5_Witness ==
    /\ pc = "done" /\ Valid
    /\ inp.total_turns = 1
    /\ outs.fill_factor # Zero
    /\ LET o == Compute([inp EXCEPT !.total_turns = MaxTurns])
       IN  /\ o.fill_factor # outs.fill_factor
           /\ InWindowCount(inp, o.strand_centers) < Len(o.strand_centers)

\* C6: multiplying inner_diameter, outer_diameter, bobbin_length,
\* strand_diameter and margin by the same positive factor k leaves the number
\* of strands inside the window unchanged, multiplies copper area and window
\* area by k^2, and leaves the fill factor unchanged.
Scaled(p, k) ==
    [p EXCEPT !.inner_diameter_mm = k * @, !.outer_diameter_mm = k * @,
              !.bobbin_length_mm = k * @, !.strand_diameter_mm = k * @,
              !.margin_mm = k * @]

C6_ScaleInvariance ==
    Returned =>
        \A k \in 1..MaxFactor :
            LET q == Scaled(inp, k)
                o == Compute(q)
            IN  /\ InWindowCount(q, o.strand_centers)
                     = InWindowCount(inp, outs.strand_centers)
                /\ Len(o.strand_centers) = Len(outs.strand_centers)
                /\ CopperArea(q, o.strand_centers)
                     = k * k * CopperArea(inp, outs.strand_centers)
                /\ o.window_width_mm * o.window_height_mm
                     = k * k * outs.window_width_mm * outs.window_height_mm
                /\ o.fill_factor = outs.fill_factor

C6_Witness ==
    /\ pc = "done" /\ Valid
    /\ inp.margin_mm > 0
    /\ outs.fill_factor # Zero
    /\ InWindowCount(inp, outs.strand_centers) < Len(outs.strand_centers)
    /\ Compute(Scaled(inp, MaxFactor)).strand_centers # outs.strand_centers
    /\ Compute(Scaled(inp, MaxFactor)).fill_factor = outs.fill_factor

\* C7: for every emitted strand center and every vert_pack_factor in (0, 1],
\* the layer index the renderer derives, floor((y - margin) / spacing_y), is
\* the layer in which the placement loop emitted the strand.
C7_RendererLayerIndex ==
    pc = "drawn" =>
        \A i \in 1..Len(layer_index) : layer_index[i] = emitted_ly[i]

\* The counts the data model documents: strands_per_turn >= 1,
\* turns_per_layer >= 1 (0 is discussed as an open case), total_turns >= 0.
DocumentedCounts ==
    inp.strands_per_turn >= 1 /\ inp.turns_per_layer >= 0 /\ inp.total_turns >= 0

\* C8 as stated: layer_count = 0 only when the window collapsed (stated here
\* on the documented counts, where it already fails).
C8_LayerCountZeroMeansCollapse ==
    (Returned /\ DocumentedCounts /\ inp.turns_per_layer >= 1 /\ outs.layers = 0)
    => (outs.window_width_mm = 0 \/ outs.window_height_mm = 0)

\* C8 as amended: layer_count = 0 only when the window collapsed or
\* total_turns <= 0; with a valid window and total_turns >= 1, layer_count >= 1.
C8_LayerCountZero ==
    Returned =>
        /\ outs.layers = 0
             => ( \/ outs.window_width_mm = 0 \/ outs.window_height_mm = 0
                  \/ inp.total_turns <= 0 )
        /\ (Valid /\ inp.total_turns >= 1) => outs.layers >= 1

C8_Witness ==
    /\ pc = "done" /\ Valid
    /\ inp.total_turns = 0
    /\ inp.turns_per_layer >= 1
    /\ outs.layers = 0

\* C9: with a valid window, layer_count is the number of layers in which the
\* loop placed at least one turn (with strands_per_turn >= 1, the number of
\* distinct y values among the centers), and the loop does not break before
\* the iteration ly = layer_count - 1 (stated here on non-negative counts).
C9_LayersActuallyUsed ==
    (Returned /\ Valid /\ DocumentedCounts)
    => /\ outs.layers = Cardinality({i \in 1..Len(trace) : trace[i].turns >= 1})
       /\ inp.strands_per_turn >= 1
            => outs.layers
                 = Cardinality({outs.strand_centers[i][2] : i \in 1..Len(outs.strand_centers)})
       /\ \A i \in 1..Len(trace) : trace[i].broke => trace[i].ly = outs.layers - 1

\* C10 as stated: compute returns without raising; the layer loop runs at most
\* max(0, layer_count) iterations; with turns_per_layer = 0 it runs exactly
\* layer_count = total_turns iterations, places no turn, leaves remaining =
\* total_turns and never breaks.
C10_ZeroTurnsPerLayer(iterations) ==
    (Returned /\ Valid /\ inp.turns_per_layer = 0)
    => /\ outs.layers = inp.total_turns
       /\ Len(trace) = iterations
       /\ outs.strand_centers = <<>>
       /\ \A i \in 1..Len(trace) :
             /\ trace[i].turns = 0
             /\ trace[i].remaining = inp.total_turns
             /\ ~trace[i].broke

C10_Bounded ==
    /\ pc # "raised"
    /\ pc = "loop" => (ly = Len(trace) /\ ly < Layers(inp))
    /\ pc = "fill" => Len(trace) <= Max(0, Layers(inp))
    /\ pc \in {"done", "drawn"} => Len(trace) <= Max(0, outs.layers)
    /\ (pc = "fill" /\ trace # <<>> /\ ~trace[Len(trace)].broke) => Len(trace) = Layers(inp)
    /\ (pc \in {"loop", "fill"} /\ inp.turns_per_layer = 0) => remaining = inp.total_turns

C10_TotalityAsStated == C10_Bounded /\ C10_ZeroTurnsPerLayer(outs.layers)

\* C10 as amended: as stated, except that with turns_per_layer = 0 the loop runs
\* exactly max(0, layer_count) iterations, layer_count = total_turns.
C10_Totality == C10_Bounded /\ C10_ZeroTurnsPerLayer(Max(0, outs.layers))

C10_Witness ==
    /\ pc = "done" /\ Valid
    /\ inp.turns_per_layer = 0
    /\ inp.total_turns = MaxTurns
    /\ inp.strands_per_turn >= 1
    /\ Len(trace) = MaxTurns
    /\ remaining = MaxTurns
====
